---------------------------- MODULE Spec2Model ----------------------------
(***************************************************************************)
(* A model of the URLPattern polyfill (denosaurs/urlpattern): the WebIDL   *)
(* argument converters of webidl.js and the URLPattern class of mod.ts     *)
(* (constructor, test, exec, getters).                                     *)
(*                                                                         *)
(* Strings are sequences of UTF-16 code units (naturals below 65536), as   *)
(* JavaScript strings are.                                                 *)
(***************************************************************************)
EXTENDS Integers, Sequences, FiniteSets

(***************************************************************************)
(* Bounds of the model.                                                    *)
(***************************************************************************)
\* longest code-unit sequence handed to the USVString converter in SpecUSV
MaxLen == 3

\* most test, exec and getter calls made on one instance
MaxCalls == 2

(***************************************************************************)
(* State.                                                                  *)
(***************************************************************************)
VARIABLES
  this,       \* the URLPattern instance: [brand, components]
  alive,      \* whether the constructor returned the instance to the caller
  built,      \* the instance as the constructor left it
  lastCall,   \* the last call made, its arguments and its outcome
  calls,      \* how many test, exec and getter calls the instance has served
  usvIn,      \* SpecUSV: the string V handed to converters.USVString
  usvOut,     \* SpecUSV: what the converter last returned
  usvFirst,   \* SpecUSV: what the converter returned for usvIn
  usvCalls    \* SpecUSV: how many times the converter has been applied

patternVars == <<this, alive, built, lastCall, calls>>
usvVars == <<usvIn, usvOut, usvFirst, usvCalls>>
vars == <<this, alive, built, lastCall, calls, usvIn, usvOut, usvFirst, usvCalls>>

(***************************************************************************)
(* converters.USVString (webidl.js)                                        *)
(***************************************************************************)
\* x << n on small non-negative operands
ShiftLeft(x, n) == x * (2 ^ n)

\* x & 0x3ff on a non-negative operand
And3FF(x) == x % 1024

\* String.fromCodePoint(cp): the UTF-16 encoding of one code point
FromCodePoint(cp) ==
  IF cp < 65536
    THEN <<cp>>
    ELSE << 55296 + ((cp - 65536) \div 1024), 56320 + ((cp - 65536) % 1024) >>

\* SurrogatePairCodePoint with the high half not shifted into place
SurrogatePairCodePointNoShift(c, d) ==
  LET a == And3FF(c)
      b == And3FF(d)
  IN  ShiftLeft(2, 15) + a + b

\* the code point of the surrogate pair (c, d):
\* (2 << 15) + (2 << 9) * (c & 0x3ff) + (d & 0x3ff)
SurrogatePairCodePoint(c, d) ==
  LET a == And3FF(c)
      b == And3FF(d)
  IN  ShiftLeft(2, 15) + ShiftLeft(2, 9) * a + b

\* S.charCodeAt(i), i counted from 0
CharCodeAt(S, i) == S[i + 1]

\* the body of the for loop of converters.USVString: i is the loop index,
\* U the string built so far
RECURSIVE USVLoop(_, _, _)
USVLoop(S, i, U) ==
  LET n == Len(S) IN
  IF ~(i < n) THEN U
  ELSE
    LET c == CharCodeAt(S, i) IN
    IF c < 55296 \/ c > 57343 THEN
      USVLoop(S, i + 1, U \o FromCodePoint(c))
    ELSE IF 56320 <= c /\ c <= 57343 THEN
      USVLoop(S, i + 1, U \o FromCodePoint(65533))
    ELSE IF i = n - 1 THEN
      USVLoop(S, i + 1, U \o FromCodePoint(65533))
    ELSE
      LET d == CharCodeAt(S, i + 1) IN
      IF 56320 <= d /\ d <= 57343 THEN
        USVLoop(S, i + 2, U \o FromCodePoint(SurrogatePairCodePoint(c, d)))
      ELSE
        USVLoop(S, i + 1, U \o FromCodePoint(65533))

\* converters.USVString applied to a value that is already a string
USVStringOfString(S) == USVLoop(S, 0, <<>>)

(***************************************************************************)
(* JavaScript values.  A value is [t, s]: t its type tag, s the string     *)
(* String(V) yields for it (the string itself for a string).  An object    *)
(* has a third field d: its own properties under the dictionary keys       *)
(* (each a primitive [t, s], "undefined" when the property is absent).     *)
(***************************************************************************)
\* the 8 components, in the order the component set and the resolved values
\* enumerate them (Object.keys)
Keys == <<"protocol", "username", "password", "hostname", "port",
          "pathname", "search", "hash">>

KeySet == {Keys[i] : i \in DOMAIN Keys}

DictKeys == KeySet \cup {"baseURL"}

AbsentMember == [t |-> "undefined", s |-> <<>>]

EmptyDict == [k \in DictKeys |-> AbsentMember]

\* "undefined", "null", "[object Object]" as code units
StrUndefined == <<117, 110, 100, 101, 102, 105, 110, 101, 100>>
StrNull == <<110, 117, 108, 108>>
StrObject == <<91, 111, 98, 106, 101, 99, 116, 32, 79, 98, 106, 101, 99, 116, 93>>

JSUndefined == [t |-> "undefined", s |-> StrUndefined]
JSNull == [t |-> "null", s |-> StrNull]
JSSymbol == [t |-> "symbol", s |-> <<>>]
JSString(str) == [t |-> "string", s |-> str]
JSNumber(str) == [t |-> "number", s |-> str]
JSBoolean(str) == [t |-> "boolean", s |-> str]
JSFunction(str) == [t |-> "function", s |-> str]
JSObject(dict) == [t |-> "object", s |-> StrObject, d |-> dict]

\* V[key]: an own property of an object, undefined on anything else
GetMember(V, key) == IF V.t = "object" THEN V.d[key] ELSE AbsentMember

\* typeof V
TypeOf(V) == IF V.t = "null" THEN "object" ELSE V.t

\* String(V) of a value that is no symbol
StringOf(V) == V.s

NoError == [type |-> "none", msg |-> <<>>]

Returned(v) == [threw |-> FALSE, err |-> NoError, val |-> v]
Thrown(e) == [threw |-> TRUE, err |-> e, val |-> JSUndefined]

(***************************************************************************)
(* webidl.js                                                               *)
(***************************************************************************)
\* the error of evaluating an identifier that no declaration, import or
\* global binds
UnboundIdentifier(name) == [type |-> "ReferenceError", msg |-> <<name, "is not defined">>]

\* makeException(ErrorType, message, opts): webidl.js declares no
\* makeException and imports nothing, so evaluating the call expression
\* throws a ReferenceError and no error object is built
MakeException(ErrorType, message, opts) == UnboundIdentifier("makeException")

\* type(V): webidl.js declares no type either; the call throws before the
\* switch on its result is entered
Type(V) == Thrown(UnboundIdentifier("type"))

\* requiredArguments(length, required, {prefix}): the error thrown, or NoError
RequiredArguments(length, required, opts) ==
  IF length < required
    THEN [type |-> "TypeError",
          msg |-> <<opts.prefix, "1 argument required", "but only 0 present">>]
    ELSE NoError

\* DOMString without the symbol check: String(V) of a symbol is "Symbol()"
DOMStringNoSymbolCheck(V, opts) ==
  IF opts.treatNullAsEmptyString /\ V.t = "null" THEN Returned(JSString(<<>>))
  ELSE IF TypeOf(V) = "symbol"
    THEN Returned(JSString(<<83, 121, 109, 98, 111, 108, 40, 41>>))
  ELSE Returned(JSString(StringOf(V)))

\* converters.DOMString
DOMString(V, opts) ==
  IF opts.treatNullAsEmptyString /\ V.t = "null" THEN Returned(JSString(<<>>))
  ELSE IF TypeOf(V) = "symbol" THEN
    Thrown(MakeException("TypeError",
                         "is a symbol, which cannot be converted to a string", opts))
  ELSE Returned(JSString(StringOf(V)))

\* converters.USVString
USVString(V, opts) ==
  LET S == DOMString(V, opts) IN
  IF S.threw THEN S ELSE Returned(JSString(USVLoop(S.val.s, 0, <<>>)))

\* allMembers of the URLPatternInit dictionary, sorted by key
AllMembers == <<"baseURL", "hash", "hostname", "password", "pathname", "port",
                "protocol", "search", "username">>

\* no member of URLPatternInit is required
HasRequiredKey == FALSE

\* the member loop of the dictionary converter, from member i on; idlDict is
\* the dictionary built so far
RECURSIVE DictionaryLoop(_, _, _, _, _)
DictionaryLoop(V, opts, typeV, i, idlDict) ==
  IF i > Len(AllMembers) THEN Returned(JSObject(idlDict))
  ELSE
    LET key == AllMembers[i]
        esMemberValue == IF typeV = "Undefined" \/ typeV = "Null"
                           THEN AbsentMember ELSE GetMember(V, key)
    IN
    IF esMemberValue.t # "undefined" THEN
      LET context == [opts EXCEPT !.context = key \o " of URLPatternInit (" \o opts.context \o ")"]
          idlMemberValue ==
            USVString(esMemberValue, context)
      IN
      IF idlMemberValue.threw THEN idlMemberValue
      ELSE DictionaryLoop(V, opts, typeV, i + 1,
             [idlDict EXCEPT ![key] = idlMemberValue.val])
    ELSE DictionaryLoop(V, opts, typeV, i + 1, idlDict)

\* converters.URLPatternInit: the function createDictionaryConverter returns
URLPatternInitConverter(V, opts) ==
  LET typeV == Type(V) IN
  IF typeV.threw THEN typeV
  ELSE IF typeV.val \notin {"Undefined", "Null", "Object"} THEN
    Thrown(MakeException("TypeError", "can not be converted to a dictionary", opts))
  ELSE IF (V.t = "undefined" \/ V.t = "null") /\ ~HasRequiredKey THEN
    Returned(JSObject(EmptyDict))
  ELSE DictionaryLoop(V, opts, typeV.val, 1, EmptyDict)

\* converters.URLPatternInput
URLPatternInput(V, opts) ==
  IF TypeOf(V) = "object" THEN URLPatternInitConverter(V, opts)
  ELSE USVString(V, opts)

(***************************************************************************)
(* const x = v; body(x): the value v is computed once and named.           *)
(***************************************************************************)
Bind(v, Body(_)) == CHOOSE out \in {Body(x) : x \in {v}} : TRUE

(***************************************************************************)
(* String helpers.                                                         *)
(***************************************************************************)
Take(s, n) == SubSeq(s, 1, n)
Drop(s, n) == SubSeq(s, n + 1, Len(s))
StartsWith(s, p) == Len(p) <= Len(s) /\ Take(s, Len(p)) = p

\* the first index of code unit c in s at or after index from, 0 when there is none
IndexFrom(s, c, from) ==
  LET hits == {i \in from..Len(s) : s[i] = c} IN
  IF hits = {} THEN 0 ELSE CHOOSE i \in hits : \A j \in hits : i <= j

IndexOf(s, c) == IndexFrom(s, c, 1)

IsLetter(c) == 97 <= c /\ c <= 122

\* how many letters s has from index i on, before the first non-letter
RECURSIVE LetterRun(_, _)
LetterRun(s, i) ==
  IF i <= Len(s) /\ IsLetter(s[i]) THEN 1 + LetterRun(s, i + 1) ELSE 0

(***************************************************************************)
(* The URL-parsing capability the wasm module uses.  The URLs of the model *)
(* are  scheme ":" path [ "?" search ] [ "#" hash ]  with a scheme of      *)
(* letters; they have no authority, so username, password, hostname and    *)
(* port are always empty.                                                  *)
(***************************************************************************)
EmptyValues == [k \in KeySet |-> <<>>]

\* the part of s before the first c (all of s when there is none)
Before(s, c) == IF IndexOf(s, c) = 0 THEN s ELSE Take(s, IndexOf(s, c) - 1)
\* the part of s after the first c (empty when there is none)
After(s, c) == IF IndexOf(s, c) = 0 THEN <<>> ELSE Drop(s, IndexOf(s, c))

\* whether s starts with a scheme: letters, then ":"
HasScheme(s) == IndexOf(s, 58) > 1 /\ LetterRun(s, 1) = IndexOf(s, 58) - 1

\* path, search and hash of a scheme-less remainder
SplitPath(s) ==
  [pathname |-> Before(Before(s, 35), 63),
   search |-> After(Before(s, 35), 63),
   hash |-> After(s, 35)]

\* an absolute URL string parsed: [ok, values]
ParseAbsoluteURL(s) ==
  IF ~HasScheme(s) THEN [ok |-> FALSE, values |-> EmptyValues]
  ELSE LET rest == SplitPath(After(s, 58)) IN
       [ok |-> TRUE,
        values |-> [EmptyValues EXCEPT !["protocol"] = Before(s, 58),
                                       !["pathname"] = rest.pathname,
                                       !["search"] = rest.search,
                                       !["hash"] = rest.hash]]

\* a URL string parsed, relative to base when it has no scheme of its own;
\* base is a JavaScript value, undefined when no base was given
ParseURL(s, base) ==
  IF HasScheme(s) THEN ParseAbsoluteURL(s)
  ELSE IF base.t = "undefined" THEN [ok |-> FALSE, values |-> EmptyValues]
  ELSE
    LET b == ParseAbsoluteURL(base.s)
        rest == SplitPath(s)
    IN
    IF ~b.ok THEN b
    ELSE [ok |-> TRUE,
          values |-> [b.values EXCEPT
             !["pathname"] = IF rest.pathname = <<>> THEN b.values["pathname"]
                             ELSE IF rest.pathname[1] = 47 THEN rest.pathname
                             ELSE <<47>> \o rest.pathname,
             !["search"] = rest.search,
             !["hash"] = rest.hash]]

(***************************************************************************)
(* urlpattern_process_match_input (wasm): the input resolver.              *)
(***************************************************************************)
NoResolution == [null |-> TRUE, values |-> EmptyValues, inputs |-> <<JSUndefined, JSNull>>]

\* the base a structured input is completed from: its own baseURL member,
\* else the baseURL argument
InitBase(init, baseURL) ==
  IF init.d["baseURL"].t # "undefined" THEN JSString(init.d["baseURL"].s) ELSE baseURL

\* inputs recorded by the resolver: the base slot is null when none was given
RecordedInputs(input, baseURL) ==
  <<input, IF baseURL.t = "undefined" THEN JSNull ELSE baseURL>>

urlpatternProcessMatchInput(input, baseURL) ==
  IF input.t = "string" THEN
    LET url == ParseURL(input.s, baseURL) IN
    IF ~url.ok THEN NoResolution
    ELSE [null |-> FALSE, values |-> url.values,
          inputs |-> RecordedInputs(input, baseURL)]
  ELSE
    LET base == InitBase(input, baseURL)
        b == IF base.t = "undefined"
               THEN [ok |-> TRUE, values |-> EmptyValues]
               ELSE ParseAbsoluteURL(base.s)
    IN
    IF ~b.ok THEN NoResolution
    ELSE [null |-> FALSE,
          values |-> [k \in KeySet |->
                        IF input.d[k].t # "undefined" THEN input.d[k].s
                        ELSE b.values[k]],
          inputs |-> RecordedInputs(input, baseURL)]

(***************************************************************************)
(* The pattern compiler of the wasm module (tokenizer, parser and regex    *)
(* compiler) on one component pattern.  The pattern syntax of the model:   *)
(* literal characters, "*" (wildcard), ":name" (named group), "(body)"     *)
(* (custom regex group) and a "?" modifier after a group.  The generated   *)
(* regex source is kept in structured form: the sequence of its parts,     *)
(* anchored at both ends.  A part is a literal or a group                  *)
(* (?:prefix(body)) with an optional "?" on the wrapper.                   *)
(***************************************************************************)
LitPart(s) == [k |-> "lit", s |-> s, prefix |-> <<>>, body |-> "none", opt |-> FALSE]
GroupPart(prefix, body, custom, opt) ==
  [k |-> "grp", s |-> custom, prefix |-> prefix, body |-> body, opt |-> opt]

FlushLiteral(parts, lit) == IF lit = <<>> THEN parts ELSE Append(parts, LitPart(lit))

Compiled(parts, names) == [ok |-> TRUE, parts |-> parts, names |-> names, err |-> ""]
SyntaxError(msg) == [ok |-> FALSE, parts |-> <<>>, names |-> <<>>, err |-> msg]

NameUsed(names, name) == \E i \in DOMAIN names : names[i] = name

RECURSIVE CompileLoop(_, _, _, _, _, _, _)
RECURSIVE CompileGroup(_, _, _, _, _, _, _, _)

\* a group token that ends before index j: takes the "/" before it as its
\* prefix (pathname only) and a "?" after it as its modifier
CompileGroup(p, key, j, lit, parts, names, num, g) ==
  LET usePrefix == key = "pathname" /\ lit # <<>> /\ lit[Len(lit)] = 47
      text == IF usePrefix THEN Take(lit, Len(lit) - 1) ELSE lit
      prefix == IF usePrefix THEN <<47>> ELSE <<>>
      opt == j <= Len(p) /\ p[j] = 63
      next == IF opt THEN j + 1 ELSE j
  IN
  IF NameUsed(names, g.name) THEN SyntaxError("duplicate group name")
  ELSE CompileLoop(p, key, next, <<>>,
                   Append(FlushLiteral(parts, text), GroupPart(prefix, g.body, g.custom, opt)),
                   Append(names, g.name),
                   IF g.numbered THEN num + 1 ELSE num)

\* the scan of pattern p from index i: lit the pending literal, num the next
\* numeric group name
CompileLoop(p, key, i, lit, parts, names, num) ==
  IF i > Len(p) THEN Compiled(FlushLiteral(parts, lit), names)
  ELSE IF p[i] = 42 THEN
    CompileGroup(p, key, i + 1, lit, parts, names, num,
                 [name |-> <<48 + num>>, body |-> "any", custom |-> <<>>, numbered |-> TRUE])
  ELSE IF p[i] = 58 /\ LetterRun(p, i + 1) > 0 THEN
    LET n == LetterRun(p, i + 1) IN
    CompileGroup(p, key, i + 1 + n, lit, parts, names, num,
                 [name |-> SubSeq(p, i + 1, i + n), body |-> "seg", custom |-> <<>>,
                  numbered |-> FALSE])
  ELSE IF p[i] = 40 THEN
    LET close == IndexFrom(p, 41, i + 1) IN
    IF close = 0 THEN SyntaxError("unbalanced group")
    ELSE IF close = i + 1 THEN SyntaxError("empty regex group")
    ELSE CompileGroup(p, key, close + 1, lit, parts, names, num,
                      [name |-> <<48 + num>>, body |-> "custom",
                       custom |-> SubSeq(p, i + 1, close - 1), numbered |-> TRUE])
  ELSE CompileLoop(p, key, i + 1, Append(lit, p[i]), parts, names, num)

CompileComponent(pattern, key) == CompileLoop(pattern, key, 1, <<>>, <<>>, <<>>, 0)

(***************************************************************************)
(* The regular-expression capability (RegExp of the host).                 *)
(***************************************************************************)
Undef == [def |-> FALSE, s |-> <<>>]
Captured(s) == [def |-> TRUE, s |-> s]

NoMatch == [matched |-> FALSE, arr |-> <<>>]

\* whether the body of group part g accepts exactly the string s
BodyMatches(g, s) ==
  CASE g.body = "any" -> TRUE
    [] g.body = "seg" -> Len(s) > 0 /\ \A i \in DOMAIN s : s[i] # 47
    [] OTHER -> s = g.s

RECURSIVE MatchParts(_, _)
RECURSIVE MatchGroup(_, _, _, _)

\* group g capturing the first n units of s, then the rest of the parts;
\* shorter captures are tried when the rest does not match (backtracking)
MatchGroup(g, rest, s, n) ==
  IF n < 0 THEN NoMatch
  ELSE
    LET r == IF BodyMatches(g, Take(s, n)) THEN MatchParts(rest, Drop(s, n)) ELSE NoMatch IN
    IF r.matched THEN [matched |-> TRUE, arr |-> <<Captured(Take(s, n))>> \o r.arr]
    ELSE MatchGroup(g, rest, s, n - 1)

\* the parts matched against all of s: the captures, in declaration order
MatchParts(parts, s) ==
  IF parts = <<>> THEN
    IF s = <<>> THEN [matched |-> TRUE, arr |-> <<>>] ELSE NoMatch
  ELSE
    LET p == Head(parts) IN
    IF p.k = "lit" THEN
      IF StartsWith(s, p.s) THEN MatchParts(Tail(parts), Drop(s, Len(p.s))) ELSE NoMatch
    ELSE
      LET taken == IF StartsWith(s, p.prefix)
                     THEN MatchGroup(p, Tail(parts), Drop(s, Len(p.prefix)),
                                     Len(s) - Len(p.prefix))
                     ELSE NoMatch
          skipped == IF p.opt THEN MatchParts(Tail(parts), s) ELSE NoMatch
      IN
      IF taken.matched THEN taken
      ELSE IF skipped.matched THEN [matched |-> TRUE, arr |-> <<Undef>> \o skipped.arr]
      ELSE NoMatch

\* whether the engine accepts the source: a custom group body must be a run
\* of letters
SourceError(source) ==
  IF \E i \in DOMAIN source :
       source[i].body = "custom" /\ IndexOf(source[i].s, 91) > 0
    THEN "Invalid regular expression: unterminated character class"
  ELSE IF \E i \in DOMAIN source :
       source[i].body = "custom" /\ LetterRun(source[i].s, 1) # Len(source[i].s)
    THEN "Invalid regular expression"
  ELSE ""

\* new RegExp(source, flags): [threw, message, regexp]
NewRegExp(source, flags) ==
  [threw |-> SourceError(source) # "",
   message |-> SourceError(source),
   regexp |-> [source |-> source, flags |-> flags, lastIndex |-> 0]]

NoRegExp == [source |-> <<>>, flags |-> {}, lastIndex |-> 0]

\* RegExpBuiltinExec(R, S): the match array (arr[1] is index 0, the whole
\* match) and R afterwards.  lastIndex is read and written only under the
\* "g" or "y" flag; the source is anchored, so a match starts at index 0.
RegExpBuiltinExec(R, S) ==
  LET tracked == "g" \in R.flags \/ "y" \in R.flags
      lastIndex == IF tracked THEN R.lastIndex ELSE 0
      m == IF lastIndex = 0 THEN MatchParts(R.source, S) ELSE NoMatch
  IN
  IF m.matched
    THEN [match |-> [matched |-> TRUE, arr |-> <<Captured(S)>> \o m.arr],
          regexp |-> IF tracked THEN [R EXCEPT !.lastIndex = Len(S)] ELSE R]
    ELSE [match |-> NoMatch,
          regexp |-> IF tracked THEN [R EXCEPT !.lastIndex = 0] ELSE R]

\* RegExp.prototype.test
RegExpTest(R, S) ==
  LET r == RegExpBuiltinExec(R, S) IN [result |-> r.match.matched, regexp |-> r.regexp]

\* match[j] of a match array, j counted from 0
MatchAt(match, j) == IF j + 1 <= Len(match.arr) THEN match.arr[j + 1] ELSE Undef

(***************************************************************************)
(* urlpattern_parse (wasm): the component set of a pattern.                *)
(***************************************************************************)
Wildcard == <<42>>

NoComponent ==
  [patternString |-> <<>>, regexpString |-> <<>>, groupNameList |-> <<>>,
   regexp |-> NoRegExp]

NoComponents == [k \in KeySet |-> NoComponent]

ParseFailed(msg) ==
  [threw |-> TRUE, err |-> [type |-> "TypeError", msg |-> <<msg>>],
   components |-> NoComponents]

\* the 8 pattern strings of a pattern: [ok, err, patterns]
PatternStrings(input, baseURL) ==
  LET NoPatterns(msg) == [ok |-> FALSE, err |-> msg, patterns |-> EmptyValues]
      FromString(protocol, pathname) ==
        [ok |-> TRUE, err |-> "",
         patterns |-> [k \in KeySet |->
            CASE k = "protocol" -> protocol
              [] k = "pathname" -> pathname
              [] k \in {"hostname", "port"} -> <<>>
              [] OTHER -> Wildcard]]
  IN
  IF input.t = "string" THEN
    IF HasScheme(input.s) THEN FromString(Before(input.s, 58), After(input.s, 58))
    ELSE IF baseURL.t = "undefined" THEN NoPatterns("a relative pattern must have a base URL")
    ELSE
      LET b == ParseAbsoluteURL(baseURL.s) IN
      IF ~b.ok THEN NoPatterns("invalid base URL")
      ELSE FromString(b.values["protocol"],
                      IF input.s = <<>> THEN b.values["pathname"]
                      ELSE IF input.s[1] = 47 THEN input.s
                      ELSE <<47>> \o input.s)
  ELSE
    LET base == InitBase(input, baseURL)
        b == IF base.t = "undefined"
               THEN [ok |-> TRUE, values |-> EmptyValues]
               ELSE ParseAbsoluteURL(base.s)
    IN
    IF ~b.ok THEN NoPatterns("invalid base URL")
    ELSE [ok |-> TRUE, err |-> "",
          patterns |-> [k \in KeySet |->
             IF input.d[k].t # "undefined" THEN input.d[k].s
             ELSE IF base.t # "undefined" /\ k \in {"protocol", "hostname", "port", "pathname"}
               THEN b.values[k]
             ELSE Wildcard]]

\* the components compiled one by one, in key order, from component i on
RECURSIVE ParseComponents(_, _, _)
ParseComponents(patterns, i, components) ==
  IF i > Len(Keys) THEN [threw |-> FALSE, err |-> NoError, components |-> components]
  ELSE
    LET key == Keys[i]
        c == CompileComponent(patterns[key], key)
    IN
    IF ~c.ok THEN ParseFailed(c.err)
    ELSE ParseComponents(patterns, i + 1,
           [components EXCEPT ![key] =
              [patternString |-> patterns[key], regexpString |-> c.parts,
               groupNameList |-> c.names, regexp |-> NoRegExp]])

urlpatternParse(input, baseURL) ==
  LET p == PatternStrings(input, baseURL) IN
  IF ~p.ok THEN ParseFailed(p.err) ELSE ParseComponents(p.patterns, 1, NoComponents)

(***************************************************************************)
(* class URLPattern (mod.ts)                                               *)
(***************************************************************************)
Opts(prefix, context) ==
  [prefix |-> prefix, context |-> context, treatNullAsEmptyString |-> FALSE]

ArgsThrown(e) == [threw |-> TRUE, err |-> e, input |-> JSUndefined, baseURL |-> JSUndefined]
ArgsConverted(input, baseURL) ==
  [threw |-> FALSE, err |-> NoError, input |-> input, baseURL |-> baseURL]

\* assertBranded(self, prototype): the error thrown, or NoError
AssertBranded(self) ==
  IF ~self.brand THEN [type |-> "TypeError", msg |-> <<"Illegal invocation">>]
  ELSE NoError

\* the argument checks that open the constructor
ConstructorArguments(argc, input, baseURL) ==
  LET prefix == "Failed to construct 'URLPattern'"
      arity == RequiredArguments(argc, 1, Opts(prefix, ""))
      in1 == URLPatternInput(input, Opts(prefix, "Argument 1"))
      in2 == USVString(baseURL, Opts(prefix, "Argument 2"))
  IN
  IF arity # NoError THEN ArgsThrown(arity)
  ELSE IF in1.threw THEN ArgsThrown(in1.err)
  ELSE IF baseURL.t # "undefined" THEN
    IF in2.threw THEN ArgsThrown(in2.err) ELSE ArgsConverted(in1.val, in2.val)
  ELSE ArgsConverted(in1.val, baseURL)

\* RegExpFlags with the global flag added
RegExpFlagsGlobal == {"g", "u"}

\* the flags every component regex is compiled with
RegExpFlags == {"u"}

\* the loop over Object.keys(components) that compiles each regexpString,
\* from component i on
RECURSIVE CompileRegExps(_, _, _)
CompileRegExps(components, i, prefix) ==
  IF i > Len(Keys) THEN [threw |-> FALSE, err |-> NoError, components |-> components]
  ELSE
    LET key == Keys[i]
        r == NewRegExp(components[key].regexpString, RegExpFlags)
    IN
    IF r.threw THEN
      [threw |-> TRUE,
       err |-> [type |-> "TypeError", msg |-> <<prefix, key, "is invalid", r.message>>],
       components |-> components]
    ELSE CompileRegExps([components EXCEPT ![key].regexp = r.regexp], i + 1, prefix)

Unset == [set |-> FALSE, map |-> NoComponents]

\* StoreComponents with the assignment made before the compile loop
StoreComponentsAlways(compiled) == [set |-> TRUE, map |-> compiled.components]

\* this[_components] after the compile loop ended as compiled
StoreComponents(compiled) ==
  IF compiled.threw THEN Unset ELSE [set |-> TRUE, map |-> compiled.components]

\* new URLPattern(input, baseURL) with argc arguments:
\* [threw, err, stage, self], self the instance as the constructor leaves it
URLPatternConstructor(argc, input, baseURL) ==
  LET prefix == "Failed to construct 'URLPattern'"
      args == ConstructorArguments(argc, input, baseURL)
      parsed == urlpatternParse(args.input, args.baseURL)
      compiled == CompileRegExps(parsed.components, 1, prefix)
      Failed(stage, e) ==
        [threw |-> TRUE, err |-> e, stage |-> stage,
         self |-> [brand |-> TRUE, components |-> Unset]]
  IN
  IF args.threw THEN Failed("arguments", args.err)
  ELSE IF parsed.threw THEN Failed("parse", parsed.err)
  ELSE IF compiled.threw THEN
    [threw |-> TRUE, err |-> compiled.err, stage |-> "compile",
     self |-> [brand |-> TRUE, components |-> StoreComponents(compiled)]]
  ELSE [threw |-> FALSE, err |-> NoError, stage |-> "done",
        self |-> [brand |-> TRUE, components |-> StoreComponents(compiled)]]

\* a property getter: [threw, err, str]
Getter(self, key) ==
  IF AssertBranded(self) # NoError
    THEN [threw |-> TRUE, err |-> AssertBranded(self), str |-> <<>>]
    ELSE [threw |-> FALSE, err |-> NoError, str |-> self.components.map[key].patternString]

\* the argument checks that open test
TestArguments(argc, input, baseURL) ==
  LET prefix == "Failed to execute 'test' on 'URLPattern'"
      arity == RequiredArguments(argc, 1, Opts(prefix, ""))
      in1 == URLPatternInput(input, Opts(prefix, "Argument 1"))
      in2 == USVString(baseURL, Opts(prefix, "Argument 2"))
  IN
  IF arity # NoError THEN ArgsThrown(arity)
  ELSE IF in1.threw THEN ArgsThrown(in1.err)
  ELSE IF baseURL.t # "undefined" THEN
    IF in2.threw THEN ArgsThrown(in2.err) ELSE ArgsConverted(in1.val, in2.val)
  ELSE ArgsConverted(in1.val, baseURL)

\* TestLoop without the early return: every regex is run, the answer is
\* whether all matched
RECURSIVE TestLoopNoShortCircuit(_, _, _, _)
TestLoopNoShortCircuit(map, values, i, evaluated) ==
  IF i > Len(Keys) THEN [ret |-> TRUE, map |-> map, evaluated |-> evaluated]
  ELSE
    LET key == Keys[i]
        Rest(r) ==
          LET rest == TestLoopNoShortCircuit([map EXCEPT ![key].regexp = r.regexp],
                                             values, i + 1, Append(evaluated, key))
          IN  [rest EXCEPT !.ret = r.result /\ rest.ret]
    IN  Bind(RegExpTest(map[key].regexp, values[key]), Rest)

\* the loop of test over Object.keys(values), from component i on: map is
\* the component set, evaluated the components whose regex has been run
RECURSIVE TestLoop(_, _, _, _)
TestLoop(map, values, i, evaluated) ==
  IF i > Len(Keys) THEN [ret |-> TRUE, map |-> map, evaluated |-> evaluated]
  ELSE
    LET key == Keys[i]
        Rest(r) ==
          IF ~r.result
            THEN [ret |-> FALSE, map |-> [map EXCEPT ![key].regexp = r.regexp],
                  evaluated |-> Append(evaluated, key)]
            ELSE TestLoop([map EXCEPT ![key].regexp = r.regexp], values, i + 1,
                          Append(evaluated, key))
    IN  Bind(RegExpTest(map[key].regexp, values[key]), Rest)

\* what a call saw of the resolver: whether it was called, and its answer
NoCall == [called |-> FALSE, null |-> TRUE, values |-> EmptyValues]
Resolved(res) == [called |-> TRUE, null |-> res.null, values |-> res.values]

\* TestUnresolved with the wrong answer
TestUnresolvedTrue == TRUE

\* what test returns when the resolver reported failure
TestUnresolved == FALSE

\* pattern.test(input, baseURL) with argc arguments:
\* [threw, err, ret, res, evaluated, self]
URLPatternTest(self, argc, input, baseURL) ==
  LET Out(threw, e, ret, r, evaluated, map) ==
        [threw |-> threw, err |-> e, ret |-> ret, res |-> r, evaluated |-> evaluated,
         self |-> [self EXCEPT !.components.map = map]]
      Match(res) ==
        IF res.null
          THEN Out(FALSE, NoError, TestUnresolved, Resolved(res), <<>>, self.components.map)
          ELSE LET Return(loop) ==
                     Out(FALSE, NoError, loop.ret, Resolved(res), loop.evaluated, loop.map)
               IN  Bind(TestLoop(self.components.map, res.values, 1, <<>>), Return)
      Resolve(args) ==
        IF args.threw THEN Out(TRUE, args.err, FALSE, NoCall, <<>>, self.components.map)
        ELSE Bind(urlpatternProcessMatchInput(args.input, args.baseURL), Match)
  IN
  IF AssertBranded(self) # NoError
    THEN Out(TRUE, AssertBranded(self), FALSE, NoCall, <<>>, self.components.map)
    ELSE Bind(TestArguments(argc, input, baseURL), Resolve)

\* the argument checks that open exec
ExecArguments(argc, input, baseURL) ==
  LET prefix == "Failed to execute 'exec' on 'URLPattern'"
      arity == RequiredArguments(argc, 1, Opts(prefix, ""))
      in1 == URLPatternInput(input, Opts(prefix, "Argument 1"))
      in2 == USVString(baseURL, Opts(prefix, "Argument 2"))
  IN
  IF arity # NoError THEN ArgsThrown(arity)
  ELSE IF in1.threw THEN ArgsThrown(in1.err)
  ELSE IF baseURL.t # "undefined" THEN
    IF in2.threw THEN ArgsThrown(in2.err) ELSE ArgsConverted(in1.val, in2.val)
  ELSE ArgsConverted(in1.val, baseURL)

\* GroupEntry reading match[i] instead of match[i + 1]
GroupEntryOffByOne(name, i, match) ==
  <<name, IF MatchAt(match, i).def THEN MatchAt(match, i).s ELSE <<>> >>

\* [name, match[i + 1] ?? ""], i counted from 0
GroupEntry(name, i, match) ==
  <<name, IF MatchAt(match, i + 1).def THEN MatchAt(match, i + 1).s ELSE <<>> >>

\* component.groupNameList.map((name, i) => ...)
GroupEntries(groupNameList, match) ==
  [idx \in DOMAIN groupNameList |-> GroupEntry(groupNameList[idx], idx - 1, match)]

\* Object.fromEntries(entries): a later entry of the same name wins
ObjectFromEntries(entries) ==
  [name \in {entries[i][1] : i \in DOMAIN entries} |->
     LET last == CHOOSE i \in DOMAIN entries :
                   /\ entries[i][1] = name
                   /\ \A j \in DOMAIN entries : entries[j][1] = name => j <= i
     IN  entries[last][2]]

NoGroups == [name \in {} |-> <<>>]
NoComponentResult == [set |-> FALSE, input |-> <<>>, groups |-> NoGroups]
NullResult == [null |-> TRUE, inputs |-> <<>>, comp |-> [k \in KeySet |-> NoComponentResult]]

\* PopNull without the pop
PopNullNever(inputs) == inputs

\* ExecLoop without the return on a component that does not match
RECURSIVE ExecLoopNoNullCheck(_, _, _, _, _)
ExecLoopNoNullCheck(map, values, i, evaluated, result) ==
  IF i > Len(Keys) THEN [result |-> result, map |-> map, evaluated |-> evaluated]
  ELSE
    LET key == Keys[i]
        component == map[key]
        input == values[key]
        Rest(r) ==
          LET match == r.match
              groupEntries ==
                [idx \in DOMAIN component.groupNameList |->
                   <<component.groupNameList[idx],
                     IF MatchAt(match, idx).def THEN MatchAt(match, idx).s ELSE <<>> >>]
              groups == ObjectFromEntries(groupEntries)
          IN
          ExecLoopNoNullCheck([map EXCEPT ![key].regexp = r.regexp], values, i + 1,
                              Append(evaluated, key),
                              [result EXCEPT !.comp[key] =
                                 [set |-> TRUE, input |-> input, groups |-> groups]])
    IN  Bind(RegExpBuiltinExec(component.regexp, input), Rest)

\* inputs as exec records them: the second slot is dropped when it is null
PopNull(inputs) == IF inputs[2].t = "null" THEN SubSeq(inputs, 1, Len(inputs) - 1) ELSE inputs

\* the loop of exec over Object.keys(values), from component i on
RECURSIVE ExecLoop(_, _, _, _, _)
ExecLoop(map, values, i, evaluated, result) ==
  IF i > Len(Keys) THEN [result |-> result, map |-> map, evaluated |-> evaluated]
  ELSE
    LET key == Keys[i]
        component == map[key]
        input == values[key]
        Rest(r) ==
          LET match == r.match
              groupEntries == GroupEntries(component.groupNameList, match)
              groups == ObjectFromEntries(groupEntries)
          IN
          IF ~match.matched
            THEN [result |-> NullResult, map |-> [map EXCEPT ![key].regexp = r.regexp],
                  evaluated |-> Append(evaluated, key)]
            ELSE ExecLoop([map EXCEPT ![key].regexp = r.regexp], values, i + 1,
                          Append(evaluated, key),
                          [result EXCEPT !.comp[key] =
                             [set |-> TRUE, input |-> input, groups |-> groups]])
    IN  Bind(RegExpBuiltinExec(component.regexp, input), Rest)

\* pattern.exec(input, baseURL) with argc arguments:
\* [threw, err, result, res, evaluated, self]
URLPatternExec(self, argc, input, baseURL) ==
  LET Out(threw, e, result, r, evaluated, map) ==
        [threw |-> threw, err |-> e, result |-> result, res |-> r, evaluated |-> evaluated,
         self |-> [self EXCEPT !.components.map = map]]
      Match(res) ==
        IF res.null
          THEN Out(FALSE, NoError, NullResult, Resolved(res), <<>>, self.components.map)
          ELSE LET inputs == PopNull(res.inputs)
                   Return(loop) ==
                     Out(FALSE, NoError, loop.result, Resolved(res), loop.evaluated, loop.map)
               IN  Bind(ExecLoop(self.components.map, res.values, 1, <<>>,
                                 [NullResult EXCEPT !.null = FALSE, !.inputs = inputs]),
                        Return)
      Resolve(args) ==
        IF args.threw THEN Out(TRUE, args.err, NullResult, NoCall, <<>>, self.components.map)
        ELSE Bind(urlpatternProcessMatchInput(args.input, args.baseURL), Match)
  IN
  IF AssertBranded(self) # NoError
    THEN Out(TRUE, AssertBranded(self), NullResult, NoCall, <<>>, self.components.map)
    ELSE Bind(ExecArguments(argc, input, baseURL), Resolve)

(***************************************************************************)
(* The values the calls of the model are made with.                        *)
(***************************************************************************)
Member(str) == [t |-> "string", s |-> str]
SymbolMember == [t |-> "symbol", s |-> <<>>]

\* "a:/b", a base URL; "b", no URL
BaseAB == <<97, 58, 47, 98>>
NotAURL == <<98>>

Bases == {JSUndefined, JSSymbol, JSString(BaseAB), JSString(NotAURL)}

PatternInputs ==
  { JSUndefined, JSNull, JSSymbol,
    JSNumber(<<53>>),                                    \* 5
    JSBoolean(<<116, 114, 117, 101>>),                   \* true
    JSFunction(<<40, 41, 61, 62, 49>>),                  \* ()=>1
    JSString(<<97, 58, 47, 58, 105, 100>>),              \* "a:/:id"
    JSString(<<47, 98, 47, 58, 105, 100, 63>>),          \* "/b/:id?"
    JSString(<<97, 58, 47, 40, 91, 41>>),                \* "a:/([)"
    JSString(<<97, 58, 47, 58, 105, 100, 47, 58, 105, 100>>),  \* "a:/:id/:id"
    JSString(<<97, 58, 47, 55296>>),                     \* "a:/" and a lone surrogate
    JSString(<<97, 58, 47, 42>>),                        \* "a:/*"
    JSObject([EmptyDict EXCEPT !["pathname"] = Member(<<47, 98, 47, 58, 105, 100, 63>>)]),
    JSObject([EmptyDict EXCEPT !["pathname"] = SymbolMember]) }

MatchInputs ==
  { JSUndefined, JSNull, JSSymbol,
    JSNumber(<<53>>),                                    \* 5
    JSString(BaseAB),                                    \* "a:/b"
    JSString(<<97, 58, 47, 98, 47, 99>>),                \* "a:/b/c"
    JSString(<<98, 58, 47, 98>>),                        \* "b:/b"
    JSString(<<47, 98>>),                                \* "/b"
    JSString(<<97, 58, 47, 55296>>),                     \* "a:/" and a lone surrogate
    JSString(<<97, 58, 47, 98, 63, 113, 35, 104>>),      \* "a:/b?q#h"
    JSObject([EmptyDict EXCEPT !["pathname"] = Member(<<47, 98>>)]),
    JSObject([EmptyDict EXCEPT !["hash"] = SymbolMember]) }

\* the calls f(), f(input) and f(input, baseURL): a parameter that was not
\* passed is undefined
Calls(inputs) ==
  {[argc |-> 0, input |-> JSUndefined, baseURL |-> JSUndefined]}
    \cup {[argc |-> 1, input |-> v, baseURL |-> JSUndefined] : v \in inputs}
    \cup {[argc |-> 2, input |-> v, baseURL |-> b] : v \in inputs, b \in Bases}

(***************************************************************************)
(* Spec: one pattern is constructed, then tested, executed and read.       *)
(* Each action binds the outcome of the whole call to out.                 *)
(***************************************************************************)
NoInstance == [brand |-> FALSE, components |-> Unset]

NoArgs == [argc |-> 0, input |-> JSUndefined, baseURL |-> JSUndefined]

NoLast ==
  [op |-> "none", args |-> NoArgs, key |-> "", threw |-> FALSE, err |-> NoError,
   stage |-> "", ret |-> FALSE, result |-> NullResult, str |-> <<>>,
   res |-> NoCall, evaluated |-> <<>>]

Init ==
  /\ this = NoInstance
  /\ alive = FALSE
  /\ built = NoInstance
  /\ lastCall = NoLast
  /\ calls = 0
  /\ usvIn = <<>>
  /\ usvOut = <<>>
  /\ usvFirst = <<>>
  /\ usvCalls = 0

\* new URLPattern(...)
Construct ==
  \E a \in Calls(PatternInputs) :
    \E out \in {URLPatternConstructor(a.argc, a.input, a.baseURL)} :
    /\ lastCall.op = "none"
    /\ this' = out.self
    /\ built' = out.self
    /\ alive' = ~out.threw
    /\ lastCall' = [NoLast EXCEPT !.op = "construct", !.args = a, !.threw = out.threw,
                              !.err = out.err, !.stage = out.stage]
    /\ UNCHANGED <<calls, usvVars>>

\* pattern.test(...)
Test ==
  \E a \in Calls(MatchInputs) :
    \E out \in {URLPatternTest(this, a.argc, a.input, a.baseURL)} :
    /\ alive
    /\ calls < MaxCalls
    /\ calls' = calls + 1
    /\ this' = out.self
    /\ lastCall' = [NoLast EXCEPT !.op = "test", !.args = a, !.threw = out.threw,
                              !.err = out.err, !.ret = out.ret, !.res = out.res,
                              !.evaluated = out.evaluated]
    /\ UNCHANGED <<alive, built, usvVars>>

\* pattern.exec(...)
Exec ==
  \E a \in Calls(MatchInputs) :
    \E out \in {URLPatternExec(this, a.argc, a.input, a.baseURL)} :
    /\ alive
    /\ calls < MaxCalls
    /\ calls' = calls + 1
    /\ this' = out.self
    /\ lastCall' = [NoLast EXCEPT !.op = "exec", !.args = a, !.threw = out.threw,
                              !.err = out.err, !.result = out.result, !.res = out.res,
                              !.evaluated = out.evaluated]
    /\ UNCHANGED <<alive, built, usvVars>>

\* pattern.protocol, ..., pattern.hash
Get ==
  \E key \in KeySet :
    \E out \in {Getter(this, key)} :
    /\ alive
    /\ calls < MaxCalls
    /\ calls' = calls + 1
    /\ lastCall' = [NoLast EXCEPT !.op = "get", !.key = key, !.threw = out.threw,
                              !.err = out.err, !.str = out.str]
    /\ UNCHANGED <<this, alive, built, usvVars>>

Next == Construct \/ Test \/ Exec \/ Get

Spec == Init /\ [][Next]_vars

(***************************************************************************)
(* SpecUSV: the converter applied to every short code-unit sequence.       *)
(***************************************************************************)
\* code units the inputs are drawn from: a letter, the two ends of the high
\* and of the low surrogate range, and U+FFFD
CodeUnits == {65, 55296, 56319, 56320, 57343, 65533}

RECURSIVE StringsUpTo(_)
StringsUpTo(n) ==
  IF n = 0 THEN {<<>>}
  ELSE LET shorter == StringsUpTo(n - 1) IN
       shorter \cup {Append(s, c) : s \in {t \in shorter : Len(t) = n - 1}, c \in CodeUnits}

InitUSV ==
  /\ usvIn \in StringsUpTo(MaxLen)
  /\ usvOut = <<>>
  /\ usvFirst = <<>>
  /\ usvCalls = 0
  /\ this = NoInstance
  /\ alive = FALSE
  /\ built = NoInstance
  /\ lastCall = NoLast
  /\ calls = 0

\* U = converters.USVString(V)
ConvertUSV ==
  /\ usvCalls = 0
  /\ usvOut' = USVStringOfString(usvIn)
  /\ usvFirst' = usvOut'
  /\ usvCalls' = 1
  /\ UNCHANGED <<usvIn, patternVars>>

\* the converter applied again, to its own output
ReconvertUSV ==
  /\ usvCalls = 1
  /\ usvOut' = USVStringOfString(usvOut)
  /\ usvCalls' = 2
  /\ UNCHANGED <<usvIn, usvFirst, patternVars>>

NextUSV == ConvertUSV \/ ReconvertUSV

SpecUSV == InitUSV /\ [][NextUSV]_vars

(***************************************************************************)
(* Properties.                                                             *)
(***************************************************************************)
Args == lastCall.args

Min(S) == CHOOSE i \in S : \A j \in S : i <= j

\* C1: on a constructed pattern, for every call, test returns true exactly
\* when exec returns a non-null result, and test throws exactly when exec
\* throws.
C1_TestIffExec ==
  /\ lastCall.op = "test" =>
       \E e \in {URLPatternExec(this, Args.argc, Args.input, Args.baseURL)} :
         /\ lastCall.threw = e.threw
         /\ ~lastCall.threw => (lastCall.ret <=> ~e.result.null)
  /\ lastCall.op = "exec" =>
       \E x \in {URLPatternTest(this, Args.argc, Args.input, Args.baseURL)} :
         /\ lastCall.threw = x.threw
         /\ ~lastCall.threw => (x.ret <=> ~lastCall.result.null)

\* a URL string matched: test returned true
C1_Witness ==
  /\ lastCall.op = "test"
  /\ Args.input.t = "string"
  /\ ~lastCall.threw
  /\ lastCall.ret

\* C2: when the resolver reports failure (returns null), test returns false
\* and exec returns null, neither throws, and no component regex is run.
C2_ResolutionFailure ==
  (lastCall.op \in {"test", "exec"} /\ lastCall.res.called /\ lastCall.res.null) =>
    /\ ~lastCall.threw
    /\ lastCall.evaluated = <<>>
    /\ lastCall.op = "test" => lastCall.ret = FALSE
    /\ lastCall.op = "exec" => lastCall.result.null

\* exec of a relative string against a base that is no URL
C2_Witness ==
  /\ lastCall.op = "exec"
  /\ Args.argc = 2
  /\ Args.input = JSString(<<47, 98>>)
  /\ Args.baseURL = JSString(NotAURL)
  /\ lastCall.res.called
  /\ lastCall.res.null
  /\ lastCall.result.null

\* C3 as stated: construction fails whenever fewer than 1 argument is given
\* and whenever the input is neither a string nor an object.
C3_Original ==
  (lastCall.op = "construct"
     /\ (Args.argc < 1 \/ Args.input.t \notin {"string", "object", "null"})) =>
    lastCall.threw

\* C3 as amended: construction fails in the argument checks whenever fewer
\* than 1 argument is given and whenever the input is a symbol; a number, a
\* boolean, undefined or a function is converted to its string form and the
\* pattern is constructed exactly as from that string.
C3_InputShape ==
  lastCall.op = "construct" =>
    /\ (Args.argc < 1 \/ Args.input.t = "symbol") =>
         (lastCall.threw /\ lastCall.stage = "arguments" /\ ~alive)
    /\ (Args.argc >= 1 /\ Args.input.t \in {"number", "boolean", "undefined", "function"}) =>
         \E c \in {URLPatternConstructor(Args.argc, JSString(Args.input.s), Args.baseURL)} :
           /\ lastCall.threw = c.threw
           /\ lastCall.stage = c.stage
           /\ this = c.self

\* a number was converted to a string and accepted as a pattern
C3_Witness ==
  /\ lastCall.op = "construct"
  /\ Args.input.t = "number"
  /\ ~lastCall.threw
  /\ alive
  /\ this.components.map["pathname"].patternString = <<47, 53>>

\* C4: the constructor returns only with the regex of every component
\* compiled under the "u" flag; when the regexpString of a component does not
\* compile it throws a TypeError naming the first such component and carrying
\* the engine's message, and the component set is not stored.
C4_EagerCompile ==
  /\ alive =>
       /\ this.components.set
       /\ \A k \in KeySet :
            \E r \in {NewRegExp(this.components.map[k].regexpString, {"u"})} :
              ~r.threw /\ this.components.map[k].regexp.source = r.regexp.source
                       /\ this.components.map[k].regexp.flags = {"u"}
  /\ lastCall.op = "construct" =>
       \E args \in {ConstructorArguments(Args.argc, Args.input, Args.baseURL)} :
         /\ lastCall.threw => (~alive /\ ~this.components.set)
         /\ ~args.threw =>
              \E parsed \in {urlpatternParse(args.input, args.baseURL)} :
                ~parsed.threw =>
                  LET bad == {i \in DOMAIN Keys :
                                NewRegExp(parsed.components[Keys[i]].regexpString, {"u"}).threw}
                  IN
                  IF bad = {} THEN ~lastCall.threw /\ alive
                  ELSE
                    /\ lastCall.threw
                    /\ lastCall.stage = "compile"
                    /\ lastCall.err.type = "TypeError"
                    /\ lastCall.err.msg[2] = Keys[Min(bad)]
                    /\ lastCall.err.msg[4] =
                         NewRegExp(parsed.components[Keys[Min(bad)]].regexpString,
                                   {"u"}).message

\* a pattern whose pathname regex does not compile was rejected
C4_Witness ==
  /\ lastCall.op = "construct"
  /\ lastCall.threw
  /\ lastCall.stage = "compile"
  /\ lastCall.err.msg[2] = "pathname"
  /\ ~this.components.set

C6_TestShortCircuit ==
  (lastCall.op = "test" /\ ~lastCall.threw /\ ~lastCall.res.null) =>
    LET failing == {i \in DOMAIN Keys :
                      ~RegExpTest(this.components.map[Keys[i]].regexp,
                                  lastCall.res.values[Keys[i]]).result}
    IN
    IF failing = {}
      THEN lastCall.ret /\ lastCall.evaluated = Keys
      ELSE ~lastCall.ret /\ lastCall.evaluated = SubSeq(Keys, 1, Min(failing))

\* test stopped at pathname, the sixth component: search and hash were not
\* evaluated
C6_Witness ==
  /\ lastCall.op = "test"
  /\ ~lastCall.threw
  /\ ~lastCall.ret
  /\ lastCall.evaluated = SubSeq(Keys, 1, 6)

\* C7: in a non-null exec result inputs is [usedInput] when no baseURL was
\* supplied and [usedInput, baseURL] when one was; no second element is null
\* or undefined.
C7_RecordedInputs ==
  (lastCall.op = "exec" /\ ~lastCall.threw /\ ~lastCall.result.null) =>
    \E used \in {ExecArguments(Args.argc, Args.input, Args.baseURL)} :
      /\ lastCall.result.inputs =
           IF Args.baseURL.t = "undefined" THEN <<used.input>>
           ELSE <<used.input, used.baseURL>>
      /\ \A i \in DOMAIN lastCall.result.inputs :
           lastCall.result.inputs[i].t \notin {"null", "undefined"}

\* exec matched with no baseURL: the null the resolver recorded was dropped
C7_Witness ==
  /\ lastCall.op = "exec"
  /\ ~lastCall.threw
  /\ ~lastCall.result.null
  /\ Args.baseURL.t = "undefined"
  /\ Len(lastCall.result.inputs) = 1

\* C8: test, exec and the getters leave the instance as the constructor
\* left it (pattern strings, regexpString, groupNameList, compiled regex and
\* its lastIndex), so the outcome of a call is the one the same call has on
\* the freshly constructed instance.
C8_InstanceUnchanged ==
  alive =>
    /\ this = built
    /\ lastCall.op = "test" =>
         \E x \in {URLPatternTest(built, Args.argc, Args.input, Args.baseURL)} :
           lastCall.threw = x.threw /\ lastCall.ret = x.ret
    /\ lastCall.op = "exec" =>
         \E e \in {URLPatternExec(built, Args.argc, Args.input, Args.baseURL)} :
           lastCall.threw = e.threw /\ lastCall.result = e.result
    /\ lastCall.op = "get" =>
         lastCall.str = built.components.map[lastCall.key].patternString

\* the last of several calls, an exec, matched and captured a group, and the
\* instance is as constructed
C8_Witness ==
  /\ alive
  /\ lastCall.op = "exec"
  /\ ~lastCall.result.null
  /\ calls = MaxCalls
  /\ <<105, 100>> \in DOMAIN lastCall.result.comp["pathname"].groups
  /\ lastCall.result.comp["pathname"].groups[<<105, 100>>] = <<98>>
  /\ this = built

\* C9: test and exec throw only on argument-shape errors: for every
\* (argument count, input, baseURL) they reject the arguments with a
\* TypeError exactly when the arity check and the input/baseURL conversion of
\* the constructor reject the same arguments, and then by the same check
\* (arity, then input, then baseURL when it is not undefined).
C9_SameArgumentChecks ==
  lastCall.op \in {"test", "exec"} =>
    \E c \in {ConstructorArguments(Args.argc, Args.input, Args.baseURL)} :
      /\ c.threw <=> (lastCall.threw /\ lastCall.err.type = "TypeError")
      /\ lastCall.threw => Tail(lastCall.err.msg) = Tail(c.err.msg)

(***************************************************************************)
(* Properties of converters.USVString, under SpecUSV.                      *)
(***************************************************************************)
IsSurrogate(c) == 55296 <= c /\ c <= 57343
IsHigh(c) == 55296 <= c /\ c <= 56319
IsLow(c) == 56320 <= c /\ c <= 57343

\* the code points a string of code units stands for; an unpaired surrogate
\* stands for itself
RECURSIVE CodePoints(_)
CodePoints(S) ==
  IF S = <<>> THEN <<>>
  ELSE IF Len(S) >= 2 /\ IsHigh(S[1]) /\ IsLow(S[2])
    THEN <<65536 + 1024 * (S[1] - 55296) + (S[2] - 56320)>> \o CodePoints(Drop(S, 2))
  ELSE <<S[1]>> \o CodePoints(Drop(S, 1))

\* the code points converting S must yield
RECURSIVE Expected(_)
Expected(S) ==
  IF S = <<>> THEN <<>>
  ELSE IF ~IsSurrogate(S[1]) THEN <<S[1]>> \o Expected(Drop(S, 1))
  ELSE IF Len(S) >= 2 /\ IsHigh(S[1]) /\ IsLow(S[2])
    THEN <<65536 + 1024 * (S[1] % 1024) + (S[2] % 1024)>> \o Expected(Drop(S, 2))
  ELSE <<65533>> \o Expected(Drop(S, 1))

\* C10: USVString keeps every non-surrogate unit, turns a high surrogate
\* followed by a low one into their code point and every other surrogate
\* into U+FFFD; the output has no unpaired surrogate, and converting it again
\* returns it unchanged.
C10_USVString ==
  usvCalls >= 1 =>
    /\ CodePoints(usvFirst) = Expected(usvIn)
    /\ \A i \in DOMAIN CodePoints(usvFirst) : ~IsSurrogate(CodePoints(usvFirst)[i])
    /\ usvCalls = 2 => usvOut = usvFirst

\* a pair, a lone high surrogate and a letter were converted, twice
C10_Witness ==
  /\ usvCalls = 2
  /\ Len(usvIn) >= 3
  /\ IsHigh(usvIn[1]) /\ IsLow(usvIn[2]) /\ IsHigh(usvIn[3])
  /\ usvOut = <<usvIn[1], usvIn[2], 65533>>

=============================================================================
